---- MODULE Spec2Model ----
(***************************************************************************)
(* Room phase state machine of draw-and-impress (Supabase variant).        *)
(*                                                                         *)
(* The store holds one room row, its players, drawings and votes.  Each    *)
(* client is the Lobby / Game page on top of the useRoom hook: it acts on  *)
(* the room it last saw through the realtime subscription, which may be    *)
(* behind the store.  The game-manager edge function advances the room;    *)
(* every store access of it is a separate step, so that several           *)
(* invocations interleave as they do on the server.                        *)
(***************************************************************************)
EXTENDS Integers, FiniteSets, Sequences, TLC

(* ------------------------------ bounds -------------------------------- *)

\* updateSettings calls, startGame calls and committed room updates of the
\* edge function explored in one behaviour
MaxSettings == 1
MaxStarts == 1
MaxCommits == 4
\* room changes the realtime channel may still owe a subscribed client
MaxLag == 1

\* store faults (a failing select, rpc or update) injected in one behaviour
MaxFaults == 1

\* the clock stops here
MaxTime == 140
MaxLeaves == 1
MaxRooms == 3
\* broadcast events waiting for one client, and castVote calls, of the
\* host-broadcast variant
MaxWire == 2
MaxCast == 2
\* rejoinRoom calls of one tab
MaxLoads == 2
\* the browser clock stops here (milliseconds)
MaxClockMs == 4000

(* ----------------------------- constants ------------------------------ *)

Users == {"u1", "u2", "u3"}
Host == "u1"
\* the identities that take a seat in the games explored
Seats == {"u1", "u2"}
\* the players who draw and the players who rate in the games explored
Artists == {"u1"}
Raters == {"u2"}
Workers == {"w1", "w2"}
Prompts == {"cat", "robot"}
Images == {"imgA"}

NullTime == 0 - 1
NullPrompt == "null"

DefaultTotalRounds == 3
DefaultDrawTime == 60
DefaultVoteTime == 30
DefaultMaxPlayers == 8
ResultsSeconds == 10

\* what updateSettings is called with: one field per call.  The hook and
\* the rooms table take any number of rounds (the Lobby form offers 2..6);
\* the games explored are set to one round, so that they end within
\* MaxCommits transitions, or keep the default and go on to round 2.
SettingsInputs == {[field |-> "total_rounds", value |-> 1]}

MaxWrites == MaxSettings + MaxStarts + MaxCommits
Rounds == 0..(DefaultTotalRounds + 1)

(* ------------------------------- state -------------------------------- *)

VARIABLES
    room,        \* the rooms row
    roomVer,     \* number of UPDATEs the rooms row has had
    budget,      \* calls made so far: [settings, starts, commits, leaves]
    now,         \* wall clock, seconds
    faults,      \* store faults injected so far
    players,     \* players rows, by user: [joined, score, is_host]
    drawings,    \* set of drawings rows
    votes,       \* set of votes rows
    view,        \* each client's useRoom state: the room it last saw
    submitted,   \* the last submitDrawing call: its return value, and whether
                 \* the player's row for the round existed before it
    pc,          \* each game-manager invocation's position
    snap,        \* the room row the invocation read
    upd,         \* the update the invocation computed in its switch
    todo,        \* drawings the scoring loop has fetched and not yet handled
    fb,          \* drawing and score read by the fallback path
    scoring,     \* what the invocation's scoring pass has done
    commits,     \* per room version: transitions committed by invocations that read it
    awarded,     \* points added per (player, round) by all scoring passes
    build,       \* the database the migrations produced: which vote triggers it has
    calls,       \* each browser tab's joinRoom or rejoinRoom call in flight
    result,      \* what the last completed useRoom call returned and showed
    extra,       \* players rows an identity has beyond its first one
    roomCodes,   \* rooms table: how many rooms have each code
    clockMs,     \* Date.now() of the browser that shows a Timer, milliseconds
    timer,       \* the Timer component of the Game page and what it has done
    loads,       \* each tab's roomLoadingState, error and load timeout
    hub,         \* host-broadcast useRoom: each client's state and handlers
    wire,        \* broadcast events on their way to each subscribed client
    castLog      \* the votes for which castVote of that hook returned true

vars == <<room, roomVer, budget, now, faults, players, drawings,
          votes, view, submitted, pc, snap, upd, todo, fb, scoring,
          commits, awarded, build, calls, result, extra, roomCodes,
          clockMs, timer, loads, hub, wire, castLog>>

\* the Timer component and the load timeout of useRoom
bcastVars == <<hub, wire, castLog>>
auxVars == <<clockMs, timer, loads, bcastVars>>
hookVars == <<build, calls, result, extra, roomCodes, auxVars>>
roomVars == <<room, roomVer, budget>>
storeVars == <<players, drawings, votes>>
clientVars == <<view, submitted>>
workerVars == <<pc, snap, upd, todo, fb, scoring, commits>>

NoView == [loaded |-> FALSE, ver |-> 0, status |-> "lobby", current_round |-> 0,
           draw_time |-> 0, phase_end_at |-> NullTime]
NoSnap == [status |-> "lobby", current_round |-> 0, total_rounds |-> 0,
           draw_time |-> 0, vote_time |-> 0, phase_end_at |-> NullTime,
           current_prompt |-> NullPrompt, ver |-> 0 - 1, at |-> 0]
NoUpdate == [go |-> FALSE, status |-> "lobby", current_round |-> 0,
             phase_end_at |-> NullTime, current_prompt |-> NullPrompt]
NoSubmit == [called |-> FALSE, ok |-> FALSE, existed |-> FALSE]
NoFallback == [player_id |-> "", vote_count |-> 0, score |-> 0]
NoScoring == [ran |-> FALSE, failed |-> FALSE]
NoCall == [op |-> "none", pc |-> "idle", who |-> "", status |-> "lobby",
           max_players |-> 0, roomData |-> NoView]
NoResult == [op |-> "none", who |-> "", ok |-> FALSE, msg |-> "",
             loading |-> "idle"]

NoTimer == [endTime |-> NullTime, status |-> "lobby", timeLeft |-> 0,
            interval |-> FALSE, lastRun |-> 0, completed |-> NullTime,
            submit |-> FALSE, request |-> NullTime]
NoLoad == [state |-> "idle", error |-> "", seen |-> "idle",
           timeout |-> NullTime, pc |-> "none", who |-> "", n |-> 0]

\* the clients of the host-broadcast useRoom; myId of each
Peers == {"u1", "u2"}

\* room: Room | null of that hook
NullRoom == [code |-> "", host_id |-> "", status |-> "none",
             current_round |-> 0, total_rounds |-> 0, draw_time |-> 0,
             vote_time |-> 0, max_players |-> 0,
             current_prompt |-> NullPrompt, phase_end_at |-> NullTime,
             used_prompts |-> {}]
\* room, players, drawings and votes of a hook that has done nothing yet
NoState == [room |-> NullRoom, players |-> <<>>, drawings |-> <<>>,
            votes |-> <<>>]
\* state: the useState values; bound: the values the channel handlers
\* closed over when connectToChannel registered them
NoPeer == [state |-> NoState, status |-> "idle", channel |-> "",
           bound |-> NoState]

\* no Timer mounted, no room load begun, no broadcast room created
InitAux ==
    /\ clockMs = 0
    /\ timer = NoTimer
    /\ loads = [t \in {"t1", "t2"} |-> NoLoad]
    /\ hub = [c \in Peers |-> NoPeer]
    /\ wire = [c \in Peers |-> <<>>]
    /\ castLog = <<>>

\* generateRoomCode: CodeLen characters, each chars.charAt of a random
\* index; the alphabet is cut down to its first two characters
CodeLen == 5
Alphabet == <<"A", "B">>
Randoms == [1..CodeLen -> 1..Len(Alphabet)]
generateRoomCode(rnd) == [i \in 1..CodeLen |-> Alphabet[rnd[i]]]
Codes == {generateRoomCode(rnd) : rnd \in Randoms}

\* the rooms table holding the room of this model only
OneRoom ==
    [c \in Codes |-> IF c = generateRoomCode([i \in 1..CodeLen |-> 1])
                     THEN 1 ELSE 0]

\* browser tabs from which joinRoom and rejoinRoom are called, and the
\* identity that is signed in there
Tabs == {"t1", "t2"}
Joiners == {"u2"}
\* the identities that compete for a seat
Guests == {"u2", "u3"}

\* The src tree has two definitions of update_drawing_vote_count() and two
\* AFTER INSERT triggers on votes that call it: migration 20260115081901
\* (body: vote_count + 1, trigger on_vote_insert) and the SQL that follows
\* the edge function (body: recount, trigger trigger_update_drawing_vote_count,
\* and a recounting AFTER DELETE trigger).  CREATE OR REPLACE keeps the body
\* that ran last; neither script drops the other's trigger.
\*   "migrations": only the migrations directory was applied
\*   "sql_first":  the trailing SQL ran before migration 20260115081901
\*   "sql_last":   the trailing SQL ran after it
Builds == {"migrations", "sql_first", "sql_last"}

\* what the client keeps of a rooms row (setRoomState); ver tells which
\* change of the row it has seen
Mirror(r, ver) == [loaded |-> TRUE, ver |-> ver, status |-> r.status,
              current_round |-> r.current_round, draw_time |-> r.draw_time,
              phase_end_at |-> r.phase_end_at]

\* the rooms row as createRoom inserts it (code, host_id, status; the other
\* columns take their defaults), with the host's players row
CreatedRoom ==
    [status |-> "lobby", current_round |-> 0,
     total_rounds |-> DefaultTotalRounds, draw_time |-> DefaultDrawTime,
     vote_time |-> DefaultVoteTime, max_players |-> DefaultMaxPlayers,
     current_prompt |-> NullPrompt, phase_end_at |-> NullTime]

Init ==
    /\ room = CreatedRoom
    /\ roomVer = 0
    /\ budget = [settings |-> 0, starts |-> 0, commits |-> 0, leaves |-> 0]
    /\ now = 0
    /\ faults = 0
    /\ players = [u \in Users |->
                    [joined |-> (u = Host), score |-> 0, is_host |-> (u = Host)]]
    /\ drawings = {}
    /\ votes = {}
    /\ view = [u \in Users |-> IF u = Host THEN Mirror(CreatedRoom, 0) ELSE NoView]
    /\ submitted = NoSubmit
    /\ pc = [w \in Workers |-> "idle"]
    /\ snap = [w \in Workers |-> NoSnap]
    /\ upd = [w \in Workers |-> NoUpdate]
    /\ todo = [w \in Workers |-> {}]
    /\ fb = [w \in Workers |-> NoFallback]
    /\ scoring = [w \in Workers |-> NoScoring]
    /\ commits = [v \in 0..MaxWrites |-> 0]
    /\ awarded = [u \in Users |-> [r \in Rounds |-> 0]]
    /\ build = "sql_last"
    /\ calls = [t \in Tabs |-> NoCall]
    /\ result = NoResult
    /\ extra = [u \in Users |-> 0]
    /\ roomCodes = OneRoom
    /\ InitAux

(* ------------------------------- clock -------------------------------- *)

\* time passes until the room's deadline is just behind
Tick ==
    /\ room.phase_end_at # NullTime
    /\ now <= room.phase_end_at
    /\ room.phase_end_at + 1 <= MaxTime
    /\ now' = room.phase_end_at + 1
    /\ UNCHANGED <<roomVars, faults, storeVars, clientVars, workerVars, awarded, hookVars>>

(* --------------------------- client: useRoom -------------------------- *)

JoinedCount == Cardinality({u \in Users : players[u].joined})

joinRoom(u) ==
    /\ room.status = "lobby"
    /\ JoinedCount < room.max_players
    /\ players' = [players EXCEPT ![u] =
                     IF players[u].joined THEN @
                     ELSE [joined |-> TRUE, score |-> 0, is_host |-> FALSE]]
    /\ view' = [view EXCEPT ![u] = Mirror(room, roomVer)]
    /\ UNCHANGED <<roomVars, now, faults, drawings, votes,
                   submitted, workerVars, awarded, hookVars>>

\* realtime: the rooms UPDATE notification reaches a subscribed client
RoomChanged(u) ==
    /\ view[u].loaded
    /\ view[u].ver < roomVer
    /\ view' = [view EXCEPT ![u] = Mirror(room, roomVer)]
    /\ UNCHANGED <<roomVars, now, faults, storeVars, submitted, workerVars, awarded, hookVars>>

\* the channel can take one more room change
ChannelFree == \A u \in Users : view[u].loaded => roomVer - view[u].ver < MaxLag

\* update rooms set <settings> where id = room.id
settingsUpdate(r, s) ==
    IF s.field = "total_rounds"
    THEN [r EXCEPT !.total_rounds = s.value]
    ELSE [r EXCEPT !.draw_time = s.value]

updateSettings(u, s) ==
    /\ view[u].loaded
    /\ budget.settings < MaxSettings
    /\ ChannelFree
    /\ room' = settingsUpdate(room, s)
    /\ roomVer' = roomVer + 1
    /\ budget' = [budget EXCEPT !.settings = @ + 1]
    /\ UNCHANGED <<now, faults, storeVars, clientVars, workerVars, awarded, hookVars>>

\* the settings form of the Lobby page: shown while the client sees the
\* lobby, enabled for the host
onValueChange(u) ==
    /\ view[u].status = "lobby"
    /\ players[u].is_host
    /\ \E s \in SettingsInputs : updateSettings(u, s)

startGameUpdateNoDeadline(r, t, drawTime, prompt) ==
    [r EXCEPT !.status = "drawing",
              !.current_round = 1,
              !.current_prompt = prompt]

startGameUpdateNoRound(r, t, drawTime, prompt) ==
    [r EXCEPT !.status = "drawing",
              !.current_prompt = prompt,
              !.phase_end_at = t + drawTime]

startGameUpdate(r, t, drawTime, prompt) ==
    [r EXCEPT !.status = "drawing",
              !.current_round = 1,
              !.current_prompt = prompt,
              !.phase_end_at = t + drawTime]

startGame(u) ==
    /\ view[u].loaded
    /\ budget.starts < MaxStarts
    /\ ChannelFree
    /\ \E p \in Prompts :
         room' = startGameUpdate(room, now, view[u].draw_time, p)
    /\ roomVer' = roomVer + 1
    /\ budget' = [budget EXCEPT !.starts = @ + 1]
    /\ UNCHANGED <<now, faults, storeVars, clientVars, workerVars, awarded, hookVars>>

\* the Start Game button of the Lobby page; the page is left for the Game
\* page when the client sees the drawing phase, and in no other phase
handleStart(u) ==
    /\ view[u].status # "drawing"
    /\ players[u].is_host
    /\ JoinedCount >= 2
    /\ startGame(u)

HasDrawing(ds, pid, rnd) == \E d \in ds : d.player_id = pid /\ d.round = rnd

\* gen_random_uuid(): a fresh row id, named after the player, the round and
\* the rows the player already has for the round
NewId(ds, pid, rnd) ==
    <<pid, rnd, Cardinality({d \in ds : d.player_id = pid /\ d.round = rnd}) + 1>>

insertDrawing(ds, pid, rnd, img) ==
    ds \cup {[id |-> NewId(ds, pid, rnd), player_id |-> pid,
              round |-> rnd, image_data |-> img, vote_count |-> 0]}

\* INSERT ... ON CONFLICT (player_id, room_id, round) DO UPDATE: the row the
\* unique constraint unique_player_round_drawing finds is overwritten
upsertDrawing(ds, pid, rnd, img) ==
    IF HasDrawing(ds, pid, rnd)
    THEN {IF d.player_id = pid /\ d.round = rnd
          THEN [d EXCEPT !.image_data = img] ELSE d : d \in ds}
    ELSE ds \cup {[id |-> NewId(ds, pid, rnd), player_id |-> pid,
                   round |-> rnd, image_data |-> img, vote_count |-> 0]}

submitDrawing(u, img) ==
    IF ~view[u].loaded \/ ~players[u].joined
    THEN /\ submitted' = [called |-> TRUE, ok |-> FALSE, existed |-> FALSE]
         /\ UNCHANGED <<roomVars, now, faults, storeVars, view, workerVars,
                        awarded, hookVars>>
    ELSE /\ drawings' = upsertDrawing(drawings, u, view[u].current_round, img)
         /\ submitted' = [called |-> TRUE, ok |-> TRUE,
                          existed |-> HasDrawing(drawings, u,
                                                 view[u].current_round)]
         /\ UNCHANGED <<roomVars, now, faults, players, votes, view,
                        workerVars, awarded, hookVars>>

\* the Submit button and the auto-submit at timer completion of the Game
\* page, both shown while the client sees the drawing phase
handleSubmit(u) ==
    /\ view[u].status = "drawing"
    /\ \E img \in Images : submitDrawing(u, img)

\* trigger_update_drawing_vote_count: recount the votes of the drawing
update_drawing_vote_count(ds, vs, did) ==
    {IF d.id = did
     THEN [d EXCEPT !.vote_count = Cardinality({v \in vs : v.drawing_id = did})]
     ELSE d : d \in ds}

\* votes_voter_id_drawing_key and unique_voter_round_vote
VoteConflict(vs, v) ==
    \E x \in vs :
       /\ x.voter_id = v.voter_id
       /\ (x.drawing_id = v.drawing_id \/ x.round = v.round)

castVote(u, d) ==
    /\ view[u].loaded
    /\ players[u].joined
    /\ LET v == [voter_id |-> u, drawing_id |-> d.id,
                 round |-> view[u].current_round]
       IN /\ ~VoteConflict(votes, v)
          /\ votes' = votes \cup {v}
          /\ drawings' = update_drawing_vote_count(drawings, votes', d.id)
    /\ UNCHANGED <<roomVars, now, faults, players, clientVars,
                   workerVars, awarded, hookVars>>

\* the rating stars of the Game page: shown in the voting phase under the
\* drawings of the round that are not the player's own
handleRate(u) ==
    /\ view[u].status = "voting"
    /\ \E d \in drawings :
         /\ d.round = view[u].current_round
         /\ d.player_id # u
         /\ castVote(u, d)

(* ------------------- server: game-manager edge function --------------- *)

ReadRoom(r, ver, t) ==
    [status |-> r.status, current_round |-> r.current_round,
     total_rounds |-> r.total_rounds, draw_time |-> r.draw_time,
     vote_time |-> r.vote_time, phase_end_at |-> r.phase_end_at,
     current_prompt |-> r.current_prompt, ver |-> ver, at |-> t]

IsLastRoundStrict(s) == s.current_round > s.total_rounds

\* case 'results': room.current_round >= room.total_rounds
IsLastRound(s) == s.current_round >= s.total_rounds

\* the statuses the switch of transitionRoom has a case for
SwitchStatuses == {"drawing", "voting", "results", "gallery"}

\* the case arms of the switch: the update transitionRoom will write
switchCase(s, t, prompt) ==
    CASE s.status = "drawing" ->
           [go |-> TRUE, status |-> "voting", current_round |-> s.current_round,
            phase_end_at |-> t + s.vote_time, current_prompt |-> s.current_prompt]
      [] s.status = "voting" ->
           [go |-> TRUE, status |-> "results", current_round |-> s.current_round,
            phase_end_at |-> t + ResultsSeconds,
            current_prompt |-> s.current_prompt]
      [] s.status = "results" ->
           IF IsLastRound(s)
           THEN [go |-> TRUE, status |-> "finished",
                 current_round |-> s.current_round,
                 phase_end_at |-> NullTime, current_prompt |-> s.current_prompt]
           ELSE [go |-> TRUE, status |-> "drawing",
                 current_round |-> s.current_round + 1,
                 phase_end_at |-> t + s.draw_time, current_prompt |-> prompt]
      [] s.status = "gallery" ->
           [go |-> TRUE, status |-> "voting", current_round |-> s.current_round,
            phase_end_at |-> t + s.vote_time, current_prompt |-> s.current_prompt]

transitionRoomSwitchRestart(s, t, prompt) ==
    IF s.status \in SwitchStatuses
    THEN switchCase(s, t, prompt)
    ELSE [go |-> TRUE, status |-> "drawing", current_round |-> 1,
          phase_end_at |-> t + s.draw_time, current_prompt |-> prompt]

\* the switch of transitionRoom; go = FALSE is the default case (return null)
transitionRoomSwitch(s, t, prompt) ==
    IF s.status \in SwitchStatuses
    THEN switchCase(s, t, prompt)
    ELSE [go |-> FALSE, status |-> s.status, current_round |-> s.current_round,
          phase_end_at |-> s.phase_end_at, current_prompt |-> s.current_prompt]

\* an idle server instance takes the request; the instances are
\* interchangeable, so the first idle one does
CanStart(w) ==
    /\ pc[w] = "idle"
    /\ w = "w2" => pc["w1"] # "idle"

\* transitionRoom up to its first await after the switch: the update is
\* computed from the row just read, with the clock of that moment
StartInvocation(w, s) ==
    \E p \in Prompts \cup {s.current_prompt} :
       LET u == transitionRoomSwitch(s, s.at, p)
       IN IF ~u.go
          THEN UNCHANGED <<pc, snap, upd>>
          ELSE /\ snap' = [snap EXCEPT ![w] = s]
               /\ upd' = [upd EXCEPT ![w] = u]
               /\ pc' = [pc EXCEPT ![w] =
                           IF s.status = "voting" THEN "fetch" ELSE "update"]

\* the Timer of the Game page calls onComplete once the deadline the client
\* sees is reached; handleTimeComplete then invokes 'transition_room'
TimerComplete(u) ==
    /\ view[u].loaded
    /\ view[u].status \notin {"lobby", "finished"}
    /\ view[u].phase_end_at # NullTime
    /\ now >= view[u].phase_end_at

\* action 'transition_room': select the room by id
TransitionRoomRequest(w) ==
    /\ CanStart(w)
    /\ \E u \in Users : TimerComplete(u)
    /\ StartInvocation(w, ReadRoom(room, roomVer, now))
    /\ UNCHANGED <<roomVars, now, faults, storeVars, clientVars, todo, fb,
                   scoring, commits, awarded, hookVars>>

\* the filter of action 'check_phase_transitions'
ExpiredOrNot(r, t) ==
    /\ r.status \notin {"lobby", "finished"}
    /\ r.phase_end_at # NullTime

Expired(r, t) ==
    /\ r.status \notin {"lobby", "finished"}
    /\ r.phase_end_at # NullTime
    /\ r.phase_end_at < t

CheckPhaseTransitions(w) ==
    /\ CanStart(w)
    /\ IF Expired(room, now)
       THEN StartInvocation(w, ReadRoom(room, roomVer, now))
       ELSE UNCHANGED <<pc, snap, upd>>
    /\ UNCHANGED <<roomVars, now, faults, storeVars, clientVars, todo, fb,
                   scoring, commits, awarded, hookVars>>

\* transitionRoom returns: the invocation's locals are gone
Return(w) ==
    /\ pc' = [pc EXCEPT ![w] = "idle"]
    /\ snap' = [snap EXCEPT ![w] = NoSnap]
    /\ scoring' = [scoring EXCEPT ![w] = NoScoring]

(* updateScoresFromVotes *)

\* select id, player_id, vote_count of the round's drawings; the loop body
\* runs only for the rows with vote_count > 0
FetchedDrawings(ds, rnd) ==
    {[id |-> d.id, player_id |-> d.player_id, vote_count |-> d.vote_count] :
       d \in {x \in ds : x.round = rnd /\ x.vote_count > 0}}

AfterLoop(remaining) == IF remaining = {} THEN "update" ELSE "score"

FetchDrawings(w) ==
    /\ pc[w] = "fetch"
    /\ todo' = [todo EXCEPT ![w] = FetchedDrawings(drawings, snap[w].current_round)]
    /\ scoring' = [scoring EXCEPT ![w].ran = TRUE]
    /\ pc' = [pc EXCEPT ![w] = AfterLoop(todo'[w])]
    /\ UNCHANGED <<roomVars, now, faults, storeVars, clientVars, snap, upd, fb,
                   commits, awarded, hookVars>>

\* drawingsError: the error is logged and the function returns
FetchDrawingsError(w) ==
    /\ pc[w] = "fetch"
    /\ faults < MaxFaults
    /\ faults' = faults + 1
    /\ scoring' = [scoring EXCEPT ![w].ran = TRUE, ![w].failed = TRUE]
    /\ pc' = [pc EXCEPT ![w] = "update"]
    /\ UNCHANGED <<roomVars, now, storeVars, clientVars, snap, upd, todo, fb,
                   commits, awarded, hookVars>>

\* rpc increment_player_score: UPDATE players SET score = score + p_points
increment_player_score(ps, pid, points) ==
    IF ps[pid].joined
    THEN [ps EXCEPT ![pid].score = @ + points]
    ELSE ps

Credit(pid, rnd) ==
    awarded' = [awarded EXCEPT ![pid][rnd] =
                  @ + players'[pid].score - players[pid].score]

IncrementScore(w) ==
    /\ pc[w] = "score"
    /\ \E d \in todo[w] :
         /\ players' = increment_player_score(players, d.player_id, d.vote_count)
         /\ Credit(d.player_id, snap[w].current_round)
         /\ todo' = [todo EXCEPT ![w] = @ \ {d}]
         /\ pc' = [pc EXCEPT ![w] = AfterLoop(todo'[w])]
    /\ UNCHANGED <<roomVars, now, faults, drawings, votes,
                   clientVars, snap, upd, fb, scoring, commits, hookVars>>

\* scoreError: the fallback reads the player's score ...
FallbackRead(w) ==
    /\ pc[w] = "score"
    /\ faults < MaxFaults
    /\ faults' = faults + 1
    /\ \E d \in todo[w] :
         /\ todo' = [todo EXCEPT ![w] = @ \ {d}]
         /\ IF players[d.player_id].joined
            THEN /\ fb' = [fb EXCEPT ![w] =
                             [player_id |-> d.player_id,
                              vote_count |-> d.vote_count,
                              score |-> players[d.player_id].score]]
                 /\ pc' = [pc EXCEPT ![w] = "fallback"]
            ELSE /\ pc' = [pc EXCEPT ![w] = AfterLoop(todo'[w])]
                 /\ UNCHANGED fb
    /\ UNCHANGED <<roomVars, now, storeVars, clientVars, snap, upd, scoring,
                   commits, awarded, hookVars>>

\* ... and writes score + vote_count back
FallbackWrite(w) ==
    /\ pc[w] = "fallback"
    /\ players' = [players EXCEPT ![fb[w].player_id].score =
                     fb[w].score + fb[w].vote_count]
    /\ Credit(fb[w].player_id, snap[w].current_round)
    /\ fb' = [fb EXCEPT ![w] = NoFallback]
    /\ pc' = [pc EXCEPT ![w] = AfterLoop(todo[w])]
    /\ UNCHANGED <<roomVars, now, faults, drawings, votes,
                   clientVars, snap, upd, todo, scoring, commits, hookVars>>

\* update rooms set status, current_round, phase_end_at, current_prompt
\* where id = room.id
roomUpdate(r, u) ==
    [r EXCEPT !.status = u.status,
              !.current_round = u.current_round,
              !.phase_end_at = u.phase_end_at,
              !.current_prompt = u.current_prompt]

UpdateRoom(w) ==
    /\ pc[w] = "update"
    /\ budget.commits < MaxCommits
    /\ ChannelFree
    /\ room' = roomUpdate(room, upd[w])
    /\ roomVer' = roomVer + 1
    /\ budget' = [budget EXCEPT !.commits = @ + 1]
    /\ commits' = [commits EXCEPT ![snap[w].ver] = @ + 1]
    /\ Return(w)
    /\ upd' = [upd EXCEPT ![w] = NoUpdate]
    /\ UNCHANGED <<now, faults, storeVars, clientVars, todo, fb, awarded, hookVars>>

\* updateError: logged, transitionRoom returns null
UpdateRoomError(w) ==
    /\ pc[w] = "update"
    /\ faults < MaxFaults
    /\ faults' = faults + 1
    /\ Return(w)
    /\ upd' = [upd EXCEPT ![w] = NoUpdate]
    /\ UNCHANGED <<roomVars, now, storeVars, clientVars, todo, fb, commits,
                   awarded, hookVars>>

(* --------------------------- specification ---------------------------- *)

Next ==
    \/ Tick
    \/ \E u \in Seats : joinRoom(u)
    \/ \E u \in Users : RoomChanged(u)
    \/ \E u \in Users : onValueChange(u)
    \/ \E u \in Users : handleStart(u)
    \/ \E u \in Artists : handleSubmit(u)
    \/ \E u \in Raters : handleRate(u)
    \/ \E w \in Workers : TransitionRoomRequest(w)
    \/ \E w \in Workers : CheckPhaseTransitions(w)
    \/ \E w \in Workers : FetchDrawings(w)
    \/ \E w \in Workers : FetchDrawingsError(w)
    \/ \E w \in Workers : IncrementScore(w)
    \/ \E w \in Workers : FallbackRead(w)
    \/ \E w \in Workers : FallbackWrite(w)
    \/ \E w \in Workers : UpdateRoom(w)
    \/ \E w \in Workers : UpdateRoomError(w)

Spec == Init /\ [][Next]_vars

(* ------------- useRoom calls, one store request per step -------------- *)

\* what a useRoom call leaves alone: the server and its clock
serverVars == <<now, faults, workerVars, awarded, roomCodes, auxVars>>

\* the images a canvas can hold
Drawn == Images \cup {"imgB"}

\* players rows of one identity, and of the room
Rows(u) == (IF players[u].joined THEN 1 ELSE 0) + extra[u]

RECURSIVE RowsOf(_)
RowsOf(S) ==
    IF S = {} THEN 0
    ELSE LET u == CHOOSE x \in S : TRUE IN Rows(u) + RowsOf(S \ {u})

\* fetchPlayers(room.id).length
currentPlayers == RowsOf(Users)

\* joinRoom: if (roomData.status !== 'lobby') throw 'Game already in progress'
GameInProgressNever(roomData) == FALSE

GameInProgress(roomData) == roomData.status # "lobby"

\* joinRoom: if (currentPlayers.length >= roomData.max_players) throw 'Room is full'
RoomIsFull(n, roomData) == n >= roomData.max_players

\* a tab with no call in flight takes the call; the tabs are
\* interchangeable, so the first free one does
TabFree(t) ==
    /\ calls[t] = NoCall
    /\ t = "t2" => calls["t1"] # NoCall

Failure(op, u, msg) ==
    [op |-> op, who |-> u, ok |-> FALSE, msg |-> msg, loading |-> "error"]

\* joinRoom, up to the room it fetched
joinRoomFetchRoom(t, u) ==
    /\ TabFree(t)
    /\ IF GameInProgress(room)
       THEN /\ result' = Failure("joinRoom", u, "Game already in progress")
            /\ UNCHANGED calls
       ELSE /\ calls' = [calls EXCEPT ![t] =
                           [op |-> "joinRoom", pc |-> "fetchPlayers", who |-> u,
                            status |-> room.status,
                            max_players |-> room.max_players,
                            roomData |-> Mirror(room, roomVer)]]
            /\ UNCHANGED result
    /\ UNCHANGED <<roomVars, storeVars, clientVars, serverVars, build, extra>>

\* joinRoom, from the players it fetched to the decision to insert
joinRoomFetchPlayers(t) ==
    /\ calls[t].op = "joinRoom"
    /\ calls[t].pc = "fetchPlayers"
    /\ LET u == calls[t].who IN
       IF RoomIsFull(currentPlayers, calls[t])
       THEN /\ result' = Failure("joinRoom", u, "Room is full")
            /\ calls' = [calls EXCEPT ![t] = NoCall]
            /\ UNCHANGED view
       ELSE IF Rows(u) > 0
       THEN /\ result' = [op |-> "joinRoom", who |-> u, ok |-> TRUE,
                          msg |-> "existing", loading |-> "joined"]
            /\ calls' = [calls EXCEPT ![t] = NoCall]
            /\ view' = [view EXCEPT ![u] = calls[t].roomData]
       ELSE /\ calls' = [calls EXCEPT ![t].pc = "insert"]
            /\ UNCHANGED <<result, view>>
    /\ UNCHANGED <<roomVars, storeVars, submitted, serverVars, build, extra>>

\* joinRoom: insert into players
joinRoomInsert(t) ==
    /\ calls[t].op = "joinRoom"
    /\ calls[t].pc = "insert"
    /\ LET u == calls[t].who IN
       /\ IF players[u].joined
          THEN /\ extra' = [extra EXCEPT ![u] = @ + 1]
               /\ UNCHANGED players
          ELSE /\ players' = [players EXCEPT ![u] =
                                [joined |-> TRUE, score |-> 0, is_host |-> FALSE]]
               /\ UNCHANGED extra
       /\ result' = [op |-> "joinRoom", who |-> u, ok |-> TRUE,
                     msg |-> "created", loading |-> "joined"]
       /\ view' = [view EXCEPT ![u] = calls[t].roomData]
    /\ calls' = [calls EXCEPT ![t] = NoCall]
    /\ UNCHANGED <<roomVars, drawings, votes, submitted, serverVars, build>>

\* select ... from players where room_id and user_id .maybeSingle(): the
\* row, or null when there is none or when there are several (error)
checkUserInRoom(u) == Rows(u) = 1

NotInRoomAlwaysError(roomData, u) ==
    Failure("rejoinRoom", u, "Game in progress - you are not a participant")

\* rejoinRoom, if (!existingPlayer): the join form in the lobby, an error
\* in a started game; false is returned in both cases
NotInRoom(roomData, u) ==
    IF roomData.status = "lobby"
    THEN [op |-> "rejoinRoom", who |-> u, ok |-> FALSE, msg |-> "",
          loading |-> "idle"]
    ELSE Failure("rejoinRoom", u, "Game in progress - you are not a participant")

\* rejoinRoom, up to the room it fetched
rejoinRoomFetchRoom(t, u) ==
    /\ TabFree(t)
    /\ calls' = [calls EXCEPT ![t] =
                   [op |-> "rejoinRoom", pc |-> "checkUser", who |-> u,
                    status |-> room.status, max_players |-> room.max_players,
                    roomData |-> Mirror(room, roomVer)]]
    /\ UNCHANGED <<roomVars, storeVars, clientVars, serverVars, build, result,
                   extra>>

\* rejoinRoom, from checkUserInRoom to its return
rejoinRoomCheckUser(t) ==
    /\ calls[t].op = "rejoinRoom"
    /\ calls[t].pc = "checkUser"
    /\ LET u == calls[t].who IN
       IF checkUserInRoom(u)
       THEN /\ result' = [op |-> "rejoinRoom", who |-> u, ok |-> TRUE,
                          msg |-> "", loading |-> "joined"]
            /\ view' = [view EXCEPT ![u] = calls[t].roomData]
       ELSE /\ result' = NotInRoom(calls[t], u)
            /\ view' = IF calls[t].status = "lobby"
                       THEN [view EXCEPT ![u] = calls[t].roomData] ELSE view
    /\ calls' = [calls EXCEPT ![t] = NoCall]
    /\ UNCHANGED <<roomVars, storeVars, submitted, serverVars, build, extra>>


(* ------------------------------ properties ---------------------------- *)

\* migration 20260115081901, body of update_drawing_vote_count():
\* vote_count = vote_count + 1 where id = NEW.drawing_id
increment_vote_count(ds, did) ==
    {IF d.id = did THEN [d EXCEPT !.vote_count = @ + 1] ELSE d : d \in ds}

\* the AFTER INSERT triggers on votes, as the build has them; vs is the
\* votes table with the new row
after_insert_votes(b, ds, vs, did) ==
    CASE b = "migrations" -> increment_vote_count(ds, did)
      [] b = "sql_first" ->
           increment_vote_count(increment_vote_count(ds, did), did)
      [] b = "sql_last" ->
           update_drawing_vote_count(
               update_drawing_vote_count(ds, vs, did), vs, did)

\* trigger_update_drawing_vote_count_on_delete, where the build has it:
\* recount the drawing of each deleted vote; vs is the votes table without
\* the deleted rows
after_delete_votes(b, ds, vs, dids) ==
    IF b = "migrations"
    THEN ds
    ELSE {IF d.id \in dids
          THEN [d EXCEPT !.vote_count =
                           Cardinality({v \in vs : v.drawing_id = d.id})]
          ELSE d : d \in ds}

Success(op, u) ==
    [op |-> op, who |-> u, ok |-> TRUE, msg |-> "", loading |-> "joined"]

\* castVote as the hook exports it: any drawing id, whatever the page shows
castVoteCall(u, d) ==
    /\ view[u].loaded
    /\ players[u].joined
    /\ LET v == [voter_id |-> u, drawing_id |-> d.id,
                 round |-> view[u].current_round]
       IN IF VoteConflict(votes, v)
          THEN /\ result' = Failure("castVote", u, "Already voted")
               /\ UNCHANGED <<votes, drawings>>
          ELSE /\ votes' = votes \cup {v}
               /\ drawings' = after_insert_votes(build, drawings, votes', d.id)
               /\ result' = Success("castVote", u)
    /\ UNCHANGED <<roomVars, players, clientVars, serverVars, build, calls,
                   extra>>

\* castVote when the insert fails for another reason than a unique key
castVoteError(u, d) ==
    /\ view[u].loaded
    /\ players[u].joined
    /\ result' = Failure("castVote", u, "Vote failed")
    /\ UNCHANGED <<roomVars, storeVars, clientVars, serverVars, build, calls,
                   extra>>

\* delete from players where id = playerId, with the cascades of the
\* foreign keys drawings.player_id, votes.voter_id and votes.drawing_id.
\* first: the deleted row is the identity's first row (the one that holds
\* its score, drawings and votes) rather than one of its later ones
deletePlayer(u, first) ==
    IF first
    THEN LET gone == {d \in drawings : d.player_id = u}
             kept == {v \in votes : /\ v.voter_id # u
                                    /\ \A d \in gone : v.drawing_id # d.id}
         IN /\ players' = [players EXCEPT ![u] =
                             [joined |-> extra[u] > 0, score |-> 0,
                              is_host |-> FALSE]]
            /\ extra' = [extra EXCEPT ![u] = IF @ > 0 THEN @ - 1 ELSE 0]
            /\ votes' = kept
            /\ drawings' = after_delete_votes(build, drawings \ gone, kept,
                              {v.drawing_id : v \in votes \ kept})
    ELSE /\ extra' = [extra EXCEPT ![u] = @ - 1]
         /\ UNCHANGED <<players, drawings, votes>>

leaveRoom(u) ==
    /\ Rows(u) >= 1
    /\ budget.leaves < MaxLeaves
    /\ budget' = [budget EXCEPT !.leaves = @ + 1]
    /\ \E first \in {TRUE} \cup {extra[u] = 0} : deletePlayer(u, first)
    /\ view' = [view EXCEPT ![u] = NoView]
    /\ result' = [op |-> "leaveRoom", who |-> u, ok |-> TRUE, msg |-> "",
                  loading |-> "idle"]
    /\ UNCHANGED <<room, roomVer, submitted, serverVars, build, calls>>

(* -------- second specification: the useRoom calls on a room ----------- *)

\* max_players as createRoom leaves it, and as updateSettings can set it
RoomSizes == {2, DefaultMaxPlayers}

\* committed transitions after startGame at which a game is taken up:
\* drawing, voting and results of round 1, drawing of round 2, and finished
Advances == {0, 1, 2, 3, 3 * DefaultTotalRounds}

\* the room one committed transition later, the request made just after
\* the deadline
Advance(r) ==
    roomUpdate(r, transitionRoomSwitch(ReadRoom(r, 0, r.phase_end_at + 1),
                                       r.phase_end_at + 1, "robot"))

RECURSIVE StartedRoom(_)
StartedRoom(k) ==
    IF k = 0
    THEN startGameUpdate(CreatedRoom, 0, CreatedRoom.draw_time, "cat")
    ELSE Advance(StartedRoom(k - 1))

\* the games the calls are made on: a lobby of either size with its host,
\* and a started two-player game of the default size
Games ==
    {[room |-> [CreatedRoom EXCEPT !.max_players = m],
      ver |-> IF m = DefaultMaxPlayers THEN 0 ELSE 1,
      now |-> 0, started |-> FALSE] : m \in RoomSizes}
    \cup
    {[room |-> StartedRoom(k), ver |-> k + 1,
      now |-> IF k = 0 THEN 0 ELSE StartedRoom(k - 1).phase_end_at + 1,
      started |-> TRUE] : k \in Advances}

InitHook ==
    /\ build \in Builds
    /\ \E g \in Games :
         /\ room = g.room
         /\ roomVer = g.ver
         /\ now = g.now
         /\ budget = [settings |-> 0, starts |-> 0, commits |-> 0,
                      leaves |-> 0]
         /\ players = [u \in Users |->
                         [joined |-> (u = Host \/ (g.started /\ u \in Seats)),
                          score |-> 0,
                          is_host |-> (u = Host)]]
         /\ view = [u \in Users |->
                      IF u = Host \/ (g.started /\ u \in Seats)
                      THEN Mirror(g.room, g.ver) ELSE NoView]
    /\ faults = 0
    /\ drawings = {}
    /\ votes = {}
    /\ submitted = NoSubmit
    /\ pc = [w \in Workers |-> "idle"]
    /\ snap = [w \in Workers |-> NoSnap]
    /\ upd = [w \in Workers |-> NoUpdate]
    /\ todo = [w \in Workers |-> {}]
    /\ fb = [w \in Workers |-> NoFallback]
    /\ scoring = [w \in Workers |-> NoScoring]
    /\ commits = [v \in 0..MaxWrites |-> 0]
    /\ awarded = [u \in Users |-> [r \in Rounds |-> 0]]
    /\ calls = [t \in Tabs |-> NoCall]
    /\ result = NoResult
    /\ extra = [u \in Users |-> 0]
    /\ roomCodes = OneRoom
    /\ InitAux

NextHook ==
    \/ \E t \in Tabs, u \in Joiners : joinRoomFetchRoom(t, u)
    \/ \E t \in Tabs : joinRoomFetchPlayers(t)
    \/ \E t \in Tabs : joinRoomInsert(t)
    \/ \E t \in Tabs, u \in Joiners : rejoinRoomFetchRoom(t, u)
    \/ \E t \in Tabs : rejoinRoomCheckUser(t)
    \/ \E u \in Joiners : leaveRoom(u)
    \/ \E u \in Users : handleStart(u)
    \/ \E u \in Users : RoomChanged(u)

\* the membership calls: joinRoom, rejoinRoom, leaveRoom, startGame
SpecHook == InitHook /\ [][NextHook]_vars

NextRound ==
    \/ \E u \in Artists, img \in Drawn : submitDrawing(u, img)
    \/ \E u \in Users, d \in drawings : castVoteCall(u, d)
    \/ \E u \in Users, d \in drawings : castVoteError(u, d)
    \/ \E u \in Joiners : leaveRoom(u)

NextJoin ==
    \/ \E t \in Tabs, u \in Guests : joinRoomFetchRoom(t, u)
    \/ \E t \in Tabs : joinRoomFetchPlayers(t)
    \/ \E t \in Tabs : joinRoomInsert(t)

\* joinRoom calls of several identities
SpecJoin == InitHook /\ [][NextJoin]_vars

(* ------------------------------ createRoom --------------------------- *)

RECURSIVE RoomsOf(_, _)
RoomsOf(rc, S) ==
    IF S = {} THEN 0
    ELSE LET c == CHOOSE x \in S : TRUE IN rc[c] + RoomsOf(rc, S \ {c})

insertRoomAnyCode(rc, code) ==
    [ok |-> TRUE, rows |-> [rc EXCEPT ![code] = @ + 1]]

\* insert into rooms (code, host_id, status): rooms.code is UNIQUE
insertRoom(rc, code) ==
    IF rc[code] > 0
    THEN [ok |-> FALSE, rows |-> rc]
    ELSE [ok |-> TRUE, rows |-> [rc EXCEPT ![code] = @ + 1]]

\* createRoom: one generated code, one insert; roomError is thrown to the
\* catch block.  The new room's host row is a row of another room.
createRoom(u, rnd) ==
    /\ RoomsOf(roomCodes, Codes) < MaxRooms
    /\ LET ins == insertRoom(roomCodes, generateRoomCode(rnd))
       IN /\ roomCodes' = ins.rows
          /\ result' = IF ins.ok
                       THEN Success("createRoom", u)
                       ELSE Failure("createRoom", u, "duplicate key")
    /\ UNCHANGED <<roomVars, storeVars, clientVars, now, faults, workerVars,
                   awarded, build, calls, extra, auxVars>>

NextCreate ==
    \E u \in Guests, rnd \in Randoms : createRoom(u, rnd)

\* createRoom calls next to the room of this model
SpecCreate == Init /\ [][NextCreate]_vars

NextHost ==
    \/ \E u \in Seats : joinRoom(u)
    \/ \E u \in Users : RoomChanged(u)
    \/ \E u \in Seats, s \in SettingsInputs : updateSettings(u, s)
    \/ \E u \in Seats : startGame(u)
    \/ \E u \in Seats : leaveRoom(u)

\* updateSettings, startGame and leaveRoom as the hook exports them, called
\* by any player who has the room loaded
SpecHost == InitHook /\ [][NextHost]_vars

\* the calls of a round: submitDrawing, castVote, and a voter leaving
SpecRound == InitHook /\ [][NextRound]_vars

(* --------------------- a voting phase with two drawings --------------- *)

\* the players whose drawings are rated
Owners == {"u2", "u3"}

\* round 1 in its voting phase: three players, the drawings of two of them
VotingRoom == StartedRoom(1)

InitVotes ==
    /\ build \in Builds
    /\ room = VotingRoom
    /\ roomVer = 2
    /\ now = StartedRoom(0).phase_end_at + 1
    /\ budget = [settings |-> 0, starts |-> 0, commits |-> 0, leaves |-> 0]
    /\ players = [u \in Users |->
                    [joined |-> TRUE, score |-> 0, is_host |-> (u = Host)]]
    /\ view = [u \in Users |-> Mirror(VotingRoom, 2)]
    /\ drawings = {[id |-> NewId({}, u, 1), player_id |-> u, round |-> 1,
                    image_data |-> "imgA", vote_count |-> 0] : u \in Owners}
    /\ votes = {}
    /\ faults = 0
    /\ submitted = NoSubmit
    /\ pc = [w \in Workers |-> "idle"]
    /\ snap = [w \in Workers |-> NoSnap]
    /\ upd = [w \in Workers |-> NoUpdate]
    /\ todo = [w \in Workers |-> {}]
    /\ fb = [w \in Workers |-> NoFallback]
    /\ scoring = [w \in Workers |-> NoScoring]
    /\ commits = [v \in 0..MaxWrites |-> 0]
    /\ awarded = [u \in Users |-> [r \in Rounds |-> 0]]
    /\ calls = [t \in Tabs |-> NoCall]
    /\ result = NoResult
    /\ extra = [u \in Users |-> 0]
    /\ roomCodes = OneRoom
    /\ InitAux

NextVotes ==
    \/ \E u \in Users, d \in drawings : castVoteCall(u, d)
    \/ \E u \in Users, d \in drawings : castVoteError(u, d)

\* castVote calls of three players on the two drawings of a round
SpecVotes == InitVotes /\ [][NextVotes]_vars

(* ------------- an owner leaves while the round is scored -------------- *)

\* round 1 at the deadline of its voting phase, with the drawings of the
\* two owners and no vote yet
InitLeave ==
    /\ build \in Builds
    /\ room = VotingRoom
    /\ roomVer = 2
    /\ now = VotingRoom.phase_end_at
    /\ budget = [settings |-> 0, starts |-> 0, commits |-> 0, leaves |-> 0]
    /\ players = [u \in Users |->
                    [joined |-> TRUE, score |-> 0, is_host |-> (u = Host)]]
    /\ view = [u \in Users |-> Mirror(VotingRoom, 2)]
    /\ drawings = {[id |-> NewId({}, u, 1), player_id |-> u, round |-> 1,
                    image_data |-> "imgA", vote_count |-> 0] : u \in Owners}
    /\ votes = {}
    /\ faults = 0
    /\ submitted = NoSubmit
    /\ pc = [w \in Workers |-> "idle"]
    /\ snap = [w \in Workers |-> NoSnap]
    /\ upd = [w \in Workers |-> NoUpdate]
    /\ todo = [w \in Workers |-> {}]
    /\ fb = [w \in Workers |-> NoFallback]
    /\ scoring = [w \in Workers |-> NoScoring]
    /\ commits = [v \in 0..MaxWrites |-> 0]
    /\ awarded = [u \in Users |-> [r \in Rounds |-> 0]]
    /\ calls = [t \in Tabs |-> NoCall]
    /\ result = NoResult
    /\ extra = [u \in Users |-> 0]
    /\ roomCodes = OneRoom
    /\ InitAux

NextLeave ==
    \/ \E u \in Owners, d \in drawings : castVoteCall(u, d)
    \/ \E u \in Owners : leaveRoom(u)
    \/ \E w \in Workers : TransitionRoomRequest(w)
    \/ \E w \in Workers : FetchDrawings(w)
    \/ \E w \in Workers : FetchDrawingsError(w)
    \/ \E w \in Workers : IncrementScore(w)
    \/ \E w \in Workers : FallbackRead(w)
    \/ \E w \in Workers : FallbackWrite(w)
    \/ \E w \in Workers : UpdateRoom(w)
    \/ \E w \in Workers : UpdateRoomError(w)

\* the owners' votes, one leaveRoom of an owner and the invocations that
\* score round 1
SpecLeave == InitLeave /\ [][NextLeave]_vars

(* ------------------------ the Timer component ------------------------- *)

\* setInterval(..., 1000)
IntervalMs == 1000

\* the deadlines a Timer is given: on a full second of the clock and off it
EndTimes == {2000, 2300, 2700}
\* the time that passes between two events of the browser
ClockSteps == {100, 300}

\* calculateTimeLeft: Math.max(0, Math.floor((end - now) / 1000))
calculateTimeLeft(end, t) ==
    LET diff == (end - t) \div 1000 IN IF diff > 0 THEN diff ELSE 0

\* the effect of the Timer: setTimeLeft and setInterval for the endTime of
\* the phase the Game page shows
TimerMount(e, st) ==
    /\ timer = NoTimer
    /\ timer' = [endTime |-> e, status |-> st,
                 timeLeft |-> calculateTimeLeft(e, clockMs),
                 interval |-> TRUE, lastRun |-> clockMs,
                 completed |-> NullTime, submit |-> FALSE,
                 request |-> NullTime]
    /\ UNCHANGED <<roomVars, storeVars, clientVars, now, faults, workerVars,
                   awarded, build, calls, result, extra, roomCodes, clockMs,
                   loads, bcastVars>>

\* the interval callback, not before its delay has passed.  At remaining <= 0
\* it clears the interval and calls onComplete, which is handleTimeComplete
\* of the Game page: the auto-submit in the drawing phase, then the
\* 'transition_room' request
TimerInterval ==
    /\ timer.interval
    /\ clockMs >= timer.lastRun + IntervalMs
    /\ LET remaining == calculateTimeLeft(timer.endTime, clockMs) IN
       timer' = IF remaining <= 0
                THEN [timer EXCEPT !.timeLeft = remaining,
                                   !.interval = FALSE,
                                   !.lastRun = clockMs,
                                   !.completed = clockMs,
                                   !.submit = (timer.status = "drawing"),
                                   !.request = clockMs]
                ELSE [timer EXCEPT !.timeLeft = remaining,
                                   !.lastRun = clockMs]
    /\ UNCHANGED <<roomVars, storeVars, clientVars, now, faults, workerVars,
                   awarded, build, calls, result, extra, roomCodes, clockMs,
                   loads, bcastVars>>

ClockPasses(d) ==
    /\ clockMs + d <= MaxClockMs
    /\ clockMs' = clockMs + d
    /\ UNCHANGED <<roomVars, storeVars, clientVars, now, faults, workerVars,
                   awarded, build, calls, result, extra, roomCodes, timer,
                   loads, bcastVars>>

NextTimer ==
    \/ \E e \in EndTimes, st \in {"drawing", "voting"} : TimerMount(e, st)
    \/ TimerInterval
    \/ \E d \in ClockSteps : ClockPasses(d)

\* one Timer of the Game page, mounted at any moment before its deadline
SpecTimer == Init /\ [][NextTimer]_vars

(* --------------------- rejoinRoom and its load timeout ---------------- *)

\* ROOM_LOAD_TIMEOUT = 8000 ms, in seconds
ROOM_LOAD_TIMEOUT == 8

\* the time that passes between two events while a load is pending
WaitStep == 4

\* rejoinRoom up to its first await: the effects of the Lobby and Game pages
\* call it while roomLoadingState is 'idle'.  The timeout callback is a
\* closure over the roomLoadingState of the render that made this
\* rejoinRoom (seen), not over the state the setters write
rejoinRoomCall(t, u) ==
    /\ loads[t].state = "idle"
    /\ loads[t].pc = "none"
    /\ loads[t].n < MaxLoads
    /\ loads' = [loads EXCEPT ![t] =
                   [state |-> "loading", error |-> "", seen |-> loads[t].state,
                    timeout |-> now + ROOM_LOAD_TIMEOUT, pc |-> "fetchRoom",
                    who |-> u, n |-> loads[t].n + 1]]
    /\ UNCHANGED <<roomVars, storeVars, clientVars, now, faults, workerVars,
                   awarded, build, calls, result, extra, roomCodes, clockMs,
                   timer, bcastVars>>

\* fetchRoom and checkUserInRoom have answered: rejoinRoom runs to its
\* return.  Only the path that restores the session clears the timeout
rejoinRoomLoaded(t) ==
    /\ loads[t].pc = "fetchRoom"
    /\ LET u == loads[t].who IN
       IF checkUserInRoom(u)
       THEN /\ loads' = [loads EXCEPT ![t].state = "joined",
                                      ![t].timeout = NullTime,
                                      ![t].pc = "none"]
            /\ view' = [view EXCEPT ![u] = Mirror(room, roomVer)]
            /\ result' = [op |-> "rejoinRoom", who |-> u, ok |-> TRUE,
                          msg |-> "", loading |-> "joined"]
       ELSE /\ result' = NotInRoom(room, u)
            /\ loads' = [loads EXCEPT ![t].state = result'.loading,
                                      ![t].error = result'.msg,
                                      ![t].pc = "none"]
            /\ view' = IF room.status = "lobby"
                       THEN [view EXCEPT ![u] = Mirror(room, roomVer)]
                       ELSE view
    /\ UNCHANGED <<roomVars, storeVars, submitted, now, faults, workerVars,
                   awarded, build, calls, extra, roomCodes, clockMs, timer,
                   bcastVars>>

\* the setTimeout callback of rejoinRoom, not before its delay has passed
LoadTimeout(t) ==
    /\ loads[t].timeout # NullTime
    /\ now >= loads[t].timeout
    /\ loads' = IF loads[t].seen = "loading"
                THEN [loads EXCEPT ![t].state = "error",
                                   ![t].error = "Room loading timed out",
                                   ![t].timeout = NullTime]
                ELSE [loads EXCEPT ![t].timeout = NullTime]
    /\ UNCHANGED <<roomVars, storeVars, clientVars, now, faults, workerVars,
                   awarded, build, calls, result, extra, roomCodes, clockMs,
                   timer, bcastVars>>

\* time passes while a load timeout is armed
LoadWait ==
    /\ \E t \in Tabs : loads[t].timeout # NullTime /\ now < loads[t].timeout
    /\ now + WaitStep <= MaxTime + MaxLoads * ROOM_LOAD_TIMEOUT
    /\ now' = now + WaitStep
    /\ UNCHANGED <<roomVars, storeVars, clientVars, faults, workerVars,
                   awarded, hookVars>>

NextLoad ==
    \/ \E t \in Tabs, u \in Joiners : rejoinRoomCall(t, u)
    \/ \E t \in Tabs : rejoinRoomLoaded(t)
    \/ \E t \in Tabs : LoadTimeout(t)
    \/ LoadWait

\* rejoinRoom calls whose store requests answer late or never
SpecLoad == InitHook /\ [][NextLoad]_vars

(* ------------------- useRoom, host-broadcast variant ------------------ *)

\* what these actions leave alone: the store, its clients and its server
storeSide == <<roomVars, storeVars, clientVars, faults, workerVars, awarded,
               build, calls, result, extra, roomCodes, clockMs, timer, loads>>

\* createRoom: Math.floor(1000 + Math.random() * 9000).toString()
RoomCodes == {"4821"}
\* createRoom(username, rounds = 3, drawTime = 60): the rounds asked for
RoundsAsked == {2}
GallerySeconds == 5
BroadcastVoteTime == 15
VotePoints == 100

NoPlayer == [id |-> "", score |-> 0, is_host |-> FALSE]
NoDrawing == [id |-> <<"", 0>>, player_id |-> "", round |-> 0]
NoVote == [voter_id |-> "", drawing_id |-> <<"", 0>>]

\* a broadcast event with its payload
Event(e, st, pl, dr, vo) ==
    [event |-> e, state |-> st, player |-> pl, drawing |-> dr, vote |-> vo]

GameState(r, p, d, v) == [room |-> r, players |-> p, drawings |-> d, votes |-> v]

\* channel.send: the event goes to every client subscribed to the channel,
\* the sender included (broadcast: { self: true })
Send(w, subs, evs) == [c \in Peers |-> IF c \in subs THEN w[c] \o evs ELSE w[c]]

Subscribers(code) == {c \in Peers : hub[c].channel = code}

\* broadcastState(r, p, d, v) by client c
broadcastState(w, c, r, p, d, v) ==
    Send(w, Subscribers(hub[c].channel),
         <<Event("gameState", GameState(r, p, d, v), NoPlayer, NoDrawing, NoVote)>>)

\* the queues of the channel can take the n events one step sends
WireFree(n) == \A c \in Peers : Len(wire[c]) + n <= MaxWire

HasPlayer(ps, id) == \E i \in 1..Len(ps) : ps[i].id = id

\* createRoom of client h, with connectToChannel up to SUBSCRIBED: the
\* handlers registered on the channel see room, players, drawings and votes
\* of the render in which createRoom was called. Each client opens one
\* channel.
createRoomBroadcast(h, code, rounds) ==
    /\ hub[h].channel = ""
    /\ LET initialRoom ==
             [code |-> code, host_id |-> h, status |-> "lobby",
              current_round |-> 0, total_rounds |-> rounds,
              draw_time |-> DefaultDrawTime, vote_time |-> BroadcastVoteTime,
              max_players |-> DefaultMaxPlayers,
              current_prompt |-> NullPrompt, phase_end_at |-> NullTime,
              used_prompts |-> {}]
           me == [id |-> h, score |-> 0, is_host |-> TRUE]
       IN hub' = [hub EXCEPT ![h] =
                    [state |-> [hub[h].state EXCEPT !.room = initialRoom,
                                                    !.players = <<me>>],
                     status |-> "connected", channel |-> code,
                     bound |-> hub[h].state]]
    /\ UNCHANGED <<storeSide, now, wire, castLog>>

\* joinRoom of client g, with connectToChannel up to SUBSCRIBED: it sends
\* 'playerJoined' with itself and 'requestState'
joinRoomBroadcast(g, code) ==
    /\ hub[g].channel = ""
    /\ WireFree(2)
    /\ hub' = [hub EXCEPT ![g] =
                 [state |-> hub[g].state, status |-> "loading",
                  channel |-> code, bound |-> hub[g].state]]
    /\ LET me == [id |-> g, score |-> 0, is_host |-> FALSE]
       IN wire' = Send(wire, Subscribers(code) \cup {g},
                       <<Event("playerJoined", NoState, me, NoDrawing, NoVote),
                         Event("requestState", NoState, me, NoDrawing, NoVote)>>)
    /\ UNCHANGED <<storeSide, now, castLog>>

\* the channel handlers of client c take the next event; room, players,
\* drawings and votes in them are the bound values, the argument of a
\* functional setState is the current value
Deliver(c) ==
    /\ wire[c] # <<>>
    /\ \/ Head(wire[c]).event = "gameState"
       \/ hub[c].bound.room.host_id # c
       \/ \A o \in Peers \ {c} : Len(wire[o]) + 1 <= MaxWire
    /\ LET m == Head(wire[c])
           rest == [wire EXCEPT ![c] = Tail(@)]
           b == hub[c].bound
           cur == hub[c].state
           isHost == b.room # NullRoom /\ b.room.host_id = c
       IN CASE m.event = "gameState" ->
                 /\ hub' = [hub EXCEPT ![c].state = m.state,
                                       ![c].status = "connected"]
                 /\ wire' = rest
            [] m.event = "requestState" ->
                 /\ hub' = hub
                 /\ wire' = IF isHost
                            THEN broadcastState(rest, c, b.room, b.players,
                                                b.drawings, b.votes)
                            ELSE rest
            [] m.event = "playerJoined" ->
                 IF isHost /\ ~HasPlayer(cur.players, m.player.id)
                 THEN LET updated == Append(cur.players, m.player) IN
                      /\ hub' = [hub EXCEPT ![c].state.players = updated]
                      /\ wire' = broadcastState(rest, c, b.room, updated,
                                                b.drawings, b.votes)
                 ELSE /\ hub' = hub
                      /\ wire' = rest
            [] m.event = "submitDrawing" ->
                 IF isHost
                 THEN LET next == Append(cur.drawings, m.drawing) IN
                      /\ hub' = [hub EXCEPT ![c].state.drawings = next]
                      /\ wire' = broadcastState(rest, c, b.room, b.players,
                                                next, b.votes)
                 ELSE /\ hub' = hub
                      /\ wire' = rest
            [] m.event = "submitVote" ->
                 IF isHost
                 THEN LET next == Append(cur.votes, m.vote) IN
                      /\ hub' = [hub EXCEPT ![c].state.votes = next]
                      /\ wire' = broadcastState(rest, c, b.room, b.players,
                                                b.drawings, next)
                 ELSE /\ hub' = hub
                      /\ wire' = rest
    /\ UNCHANGED <<storeSide, now, castLog>>

\* the prompts getRandomPrompt draws from
PromptPool == {"cat"}
\* getRandomPrompt(used): a prompt, not a used one while others are left
getRandomPrompt(used) ==
    IF PromptPool \ used = {} THEN PromptPool ELSE PromptPool \ used

\* startGame of the host, from the lobby page
startGameBroadcast(h) ==
    /\ hub[h].state.room # NullRoom
    /\ hub[h].state.room.host_id = h
    /\ hub[h].state.room.status = "lobby"
    /\ WireFree(1)
    /\ \E p \in getRandomPrompt({}) :
         LET r == hub[h].state.room
             nextRoom == [r EXCEPT !.status = "drawing",
                                   !.current_round = 1,
                                   !.current_prompt = p,
                                   !.phase_end_at = now + r.draw_time]
         IN /\ hub' = [hub EXCEPT ![h].state =
                         GameState(nextRoom, hub[h].state.players, <<>>, <<>>)]
            /\ wire' = broadcastState(wire, h, nextRoom, hub[h].state.players,
                                      <<>>, <<>>)
    /\ UNCHANGED <<storeSide, now, castLog>>

\* drawings.find(d => d.id === id): the owner of the first such drawing
OwnerOf(ds, id) ==
    IF \E i \in 1..Len(ds) : ds[i].id = id
    THEN ds[CHOOSE i \in 1..Len(ds) :
                /\ ds[i].id = id
                /\ \A j \in 1..(i - 1) : ds[j].id # id].player_id
    ELSE ""

\* a scoring that pays a voted drawing once, however many votes it has
scoreVotesFlat(ps, ds, vs) ==
    [i \in 1..Len(ps) |->
       IF \E k \in 1..Len(vs) : OwnerOf(ds, vs[k].drawing_id) = ps[i].id
       THEN [ps[i] EXCEPT !.score = @ + VotePoints]
       ELSE ps[i]]

\* votes.forEach: artist.score += 100 for the first player with the id of
\* the voted drawing's owner
scoreVotes(ps, ds, vs) ==
    [i \in 1..Len(ps) |->
       IF \A j \in 1..(i - 1) : ps[j].id # ps[i].id
       THEN [ps[i] EXCEPT !.score = @ + VotePoints *
                Cardinality({k \in 1..Len(vs) :
                               OwnerOf(ds, vs[k].drawing_id) = ps[i].id})]
       ELSE ps[i]]

\* the interval callback of the host loop at or after the deadline
hostLoop(h) ==
    /\ hub[h].state.room # NullRoom
    /\ hub[h].state.room.host_id = h
    /\ hub[h].state.room.status \notin {"lobby", "finished"}
    /\ hub[h].state.room.phase_end_at = NullTime
         \/ now >= hub[h].state.room.phase_end_at
    /\ WireFree(1)
    /\ LET st == hub[h].state
           r == st.room
       IN CASE r.status = "drawing" ->
                 LET nextRoom == [r EXCEPT !.status = "gallery",
                                           !.phase_end_at = now + GallerySeconds]
                 IN /\ hub' = [hub EXCEPT ![h].state.room = nextRoom]
                    /\ wire' = broadcastState(wire, h, nextRoom, st.players,
                                              st.drawings, st.votes)
            [] r.status = "gallery" ->
                 LET nextRoom == [r EXCEPT !.status = "voting",
                                           !.phase_end_at = now + r.vote_time]
                 IN /\ hub' = [hub EXCEPT ![h].state.room = nextRoom]
                    /\ wire' = broadcastState(wire, h, nextRoom, st.players,
                                              st.drawings, st.votes)
            [] r.status = "voting" ->
                 LET newPlayers == scoreVotes(st.players, st.drawings, st.votes)
                     nextRoom == [r EXCEPT !.status = "results",
                                           !.phase_end_at = now + ResultsSeconds]
                 IN /\ hub' = [hub EXCEPT ![h].state.room = nextRoom,
                                          ![h].state.players = newPlayers]
                    /\ wire' = broadcastState(wire, h, nextRoom, newPlayers,
                                              st.drawings, st.votes)
            [] r.status = "results" ->
                 IF r.current_round >= r.total_rounds
                 THEN LET nextRoom == [r EXCEPT !.status = "finished",
                                                !.phase_end_at = NullTime]
                      IN /\ hub' = [hub EXCEPT ![h].state.room = nextRoom]
                         /\ wire' = broadcastState(wire, h, nextRoom, st.players,
                                                   st.drawings, st.votes)
                 ELSE \E p \in getRandomPrompt(r.used_prompts) :
                      LET nextRoom ==
                            [r EXCEPT !.status = "drawing",
                                      !.current_round = @ + 1,
                                      !.current_prompt = p,
                                      !.used_prompts = @ \cup {p},
                                      !.phase_end_at = now + r.draw_time]
                      IN /\ hub' = [hub EXCEPT ![h].state =
                                      GameState(nextRoom, st.players, <<>>, <<>>)]
                         /\ wire' = broadcastState(wire, h, nextRoom, st.players,
                                                   <<>>, <<>>)
    /\ UNCHANGED <<storeSide, now, castLog>>

\* submitDrawing of client c: the host appends and broadcasts, a guest sends
\* 'submitDrawing'; true is returned
submitDrawingBroadcast(c) ==
    /\ hub[c].state.room # NullRoom
    /\ hub[c].state.room.status = "drawing"
    /\ WireFree(1)
    /\ LET st == hub[c].state
           drawing == [id |-> <<c, st.room.current_round>>, player_id |-> c,
                       round |-> st.room.current_round]
       IN /\ ~\E i \in 1..Len(st.drawings) : st.drawings[i].id = drawing.id
          /\ IF st.room.host_id = c
             THEN LET next == Append(st.drawings, drawing) IN
                  /\ hub' = [hub EXCEPT ![c].state.drawings = next]
                  /\ wire' = broadcastState(wire, c, st.room, st.players, next,
                                            st.votes)
             ELSE /\ hub' = hub
                  /\ wire' = Send(wire, Subscribers(hub[c].channel),
                                  <<Event("submitDrawing", NoState, NoPlayer,
                                          drawing, NoVote)>>)
    /\ UNCHANGED <<storeSide, now, castLog>>

\* castVote of client c on a drawing it is shown: the host appends and
\* broadcasts, a guest sends 'submitVote'; true is returned
castVoteBroadcast(c) ==
    /\ hub[c].state.room # NullRoom
    /\ hub[c].state.room.status = "voting"
    /\ Len(castLog) < MaxCast
    /\ WireFree(1)
    /\ LET st == hub[c].state IN
       \E i \in 1..Len(st.drawings) :
          LET vote == [voter_id |-> c, drawing_id |-> st.drawings[i].id] IN
          /\ castLog' = Append(castLog,
                               [voter_id |-> c, drawing_id |-> vote.drawing_id,
                                owner |-> st.drawings[i].player_id,
                                round |-> st.room.current_round])
          /\ IF st.room.host_id = c
             THEN LET next == Append(st.votes, vote) IN
                  /\ hub' = [hub EXCEPT ![c].state.votes = next]
                  /\ wire' = broadcastState(wire, c, st.room, st.players,
                                            st.drawings, next)
             ELSE /\ hub' = hub
                  /\ wire' = Send(wire, Subscribers(hub[c].channel),
                                  <<Event("submitVote", NoState, NoPlayer,
                                          NoDrawing, vote)>>)
    /\ UNCHANGED <<storeSide, now>>

\* time passes until the deadline of a host's room
TickBroadcast ==
    /\ \E h \in Peers :
         /\ hub[h].state.room.host_id = h
         /\ hub[h].state.room.phase_end_at # NullTime
         /\ now < hub[h].state.room.phase_end_at
         /\ now' = hub[h].state.room.phase_end_at
    /\ UNCHANGED <<storeSide, bcastVars>>

NextBroadcast ==
    \/ \E code \in RoomCodes, rounds \in RoundsAsked :
         createRoomBroadcast(Host, code, rounds)
    \/ \E g \in Peers \ {Host}, code \in RoomCodes : joinRoomBroadcast(g, code)
    \/ \E c \in Peers : Deliver(c)
    \/ startGameBroadcast(Host)
    \/ hostLoop(Host)
    \/ \E c \in Peers : submitDrawingBroadcast(c)
    \/ \E c \in Peers : castVoteBroadcast(c)
    \/ TickBroadcast

\* one host and one guest of the host-broadcast variant
SpecBroadcast == Init /\ [][NextBroadcast]_vars

\* the deadline invocation w read had passed when it read the room
ReadExpired(w) ==
    /\ snap[w].phase_end_at # NullTime
    /\ snap[w].phase_end_at <= snap[w].at

\* the deadline invocation w read was still ahead when it read the room
ReadEarly(w) ==
    /\ snap[w].phase_end_at # NullTime
    /\ snap[w].at < snap[w].phase_end_at

\* a step of invocation w after it has read the room
Step(w) == <<pc[w], todo[w], fb[w]>>' # <<pc[w], todo[w], fb[w]>>

\* the step in which invocation w commits its room update
Commit(w) == pc[w] = "update" /\ pc'[w] = "idle" /\ roomVer' = roomVer + 1

Phase(r) == <<r.status, r.current_round, r.current_prompt, r.phase_end_at>>
Scores(ps) == [u \in Users |-> ps[u].score]

\* votes of round r on the drawing of player u
VotesFor(u, r) ==
    Cardinality({v \in votes : v.round = r /\
                   \E d \in drawings : d.id = v.drawing_id /\
                                        d.player_id = u /\ d.round = r})

\* C1: of the invocations that read the same expired room, exactly one
\* commits a transition, and the scoring pass runs once: an invocation
\* commits only if no invocation that read the same row has committed, and
\* starts scoring only if no other invocation in flight on the same row
\* has started scoring.
C1_OneCommitOneScoring ==
    [][\A w \in Workers : ReadExpired(w) =>
          /\ Commit(w) => commits[snap[w].ver] = 0
          /\ (pc[w] = "fetch" /\ pc'[w] # "fetch") =>
               ~\E o \in Workers \ {w} :
                    snap[o].ver = snap[w].ver /\ scoring[o].ran]_vars

\* C2: for every player and round, the points all scoring passes together
\* have added for the round never exceed the votes on the player's drawing
\* of that round: each vote is scored at most once.
C2_ScoredAtMostOnce ==
    \A u \in Users, r \in Rounds : awarded[u][r] <= VotesFor(u, r)

\* C3: an invocation that read the room before its deadline changes neither
\* phase, round, prompt and deadline of the room nor any player's score.
C3_NoOpBeforeDeadline ==
    [][\A w \in Workers : (ReadEarly(w) /\ Step(w)) =>
          /\ Phase(room') = Phase(room)
          /\ Scores(players') = Scores(players)]_vars

\* C4: the room has a deadline exactly in the timed phases: phase_end_at is
\* non-null in drawing, gallery, voting and results and null in lobby and
\* finished.
C4_DeadlineIffTimedPhase ==
    /\ room.status \in {"drawing", "gallery", "voting", "results"}
          => room.phase_end_at # NullTime
    /\ room.status \in {"lobby", "finished"} => room.phase_end_at = NullTime

C4_Witness ==
    /\ room.status = "results"
    /\ room.phase_end_at # NullTime
    /\ budget.settings > 0
    /\ budget.starts > 0

C6_ResultsBranch ==
    [][\A w \in Workers : (Commit(w) /\ snap[w].status = "results") =>
          IF snap[w].current_round < snap[w].total_rounds
          THEN /\ room'.status = "drawing"
               /\ room'.current_round = snap[w].current_round + 1
               /\ room'.phase_end_at = snap[w].at + snap[w].draw_time
          ELSE /\ room'.status = "finished"
               /\ room'.current_round = snap[w].current_round]_vars

C6_Witness ==
    /\ room.status = "drawing"
    /\ room.current_round = 2
    /\ room.phase_end_at = now + room.draw_time

\* C7: current_round and current_prompt of the room change only in a step
\* that leaves the room in drawing; every other transition keeps them.
C7_RoundAndPromptFrame ==
    [][(\/ room'.current_round # room.current_round
        \/ room'.current_prompt # room.current_prompt)
       => room'.status = "drawing"]_vars

\* C8: when the voting -> results transition of round r is committed, the
\* points added for round r to each player are exactly the votes on that
\* player's round-r drawing (none for a player without votes or drawing).
C8_ScoreIsVoteCount ==
    [][\A w \in Workers : (Commit(w) /\ snap[w].status = "voting") =>
          \A u \in Users :
             awarded'[u][snap[w].current_round]
               = VotesFor(u, snap[w].current_round)]_vars

\* C9: an invocation whose scoring step failed does not commit the
\* voting -> results transition.
C9_FailedScoringBlocks ==
    [][\A w \in Workers : (Commit(w) /\ snap[w].status = "voting") =>
          ~scoring[w].failed]_vars

\* C10: there is at most one drawings row per player and round, and a
\* submission for a player and round that already had a row returned true.
C10_OneDrawingPerRound ==
    /\ \A u \in Users, r \in Rounds :
          Cardinality({d \in drawings : d.player_id = u /\ d.round = r}) <= 1
    /\ submitted.existed => submitted.ok

C10_Witness ==
    /\ submitted.called
    /\ submitted.existed
    /\ submitted.ok
    /\ drawings # {}

\* the drawings rows as submitDrawing writes them: identity and image
Submissions(ds) == {<<d.id, d.round, d.image_data>> : d \in ds}

\* C12: a drawings row is created or modified by a submission only while the
\* stored room is in the drawing phase, and only for the room's stored
\* current round
C12_SubmitOnlyInDrawingRound ==
    [][Submissions(drawings') # Submissions(drawings)
         => /\ room.status = "drawing"
            /\ \A x \in Submissions(drawings') \ Submissions(drawings) :
                  x[2] = room.current_round]_vars

\* C15: a votes row is created only while the stored room is in the voting
\* phase, and only for the room's stored current round
C15_VoteOnlyInVotingRound ==
    [][votes' # votes
         => /\ room.status = "voting"
            /\ \A v \in votes' \ votes : v.round = room.current_round]_vars

\* C11: once a player has a drawing for a round, no later submitDrawing
\* changes that drawing's image_data or vote_count (first submission wins)
C11_FirstSubmissionWins ==
    [][\A u \in Artists, img \in Drawn :
         (/\ submitDrawing(u, img)
          /\ HasDrawing(drawings, u, view[u].current_round))
         => drawings' = drawings]_vars

\* the votes rows that reference drawing d
VotesOn(vs, d) == {v \in vs : v.drawing_id = d.id}

\* C13: no votes row is ever created for a drawing by the drawing's own
\* owner, in any phase of the room
C13_NoVoteOnOwnDrawing ==
    \A v \in votes : \A d \in drawings :
        v.drawing_id = d.id => v.voter_id # d.player_id

\* C14: a castVote by a voter who already has a vote on the drawing ends in
\* 'Already voted', creates no votes row, and leaves the drawing's aggregate
\* counting the votes on it: one for each voter
C14_SecondVoteAlreadyVoted ==
    [][\A u \in Users : \A d \in drawings :
         (/\ castVoteCall(u, d)
          /\ \E v \in votes : v.voter_id = u /\ v.drawing_id = d.id)
         => /\ result' = Failure("castVote", u, "Already voted")
            /\ result'.msg # "Vote failed"
            /\ votes' = votes
            /\ \A e \in drawings' :
                  e.id = d.id => e.vote_count = Cardinality(VotesOn(votes', e))
      ]_vars

\* C16: every drawing's vote_count is the number of votes rows that
\* reference the drawing
C16_VoteCountIsVoteRows ==
    \A d \in drawings : d.vote_count = Cardinality(VotesOn(votes, d))

\* C17: a joinRoom call that finds the room in another phase than lobby,
\* made by an identity without a players row, ends in 'Game already in
\* progress' and inserts nothing; only calls that found the lobby go on
C17_JoinStartedRoomFails ==
    [][\A t \in Tabs : \A u \in Joiners :
         /\ (/\ joinRoomFetchRoom(t, u)
             /\ room.status # "lobby"
             /\ Rows(u) = 0)
            => /\ result' = Failure("joinRoom", u, "Game already in progress")
               /\ UNCHANGED <<players, extra, calls>>
         /\ calls'[t].op = "joinRoom" => calls'[t].status = "lobby"]_vars

C17_Witness ==
    /\ result = Failure("joinRoom", "u2", "Game already in progress")
    /\ room.status # "lobby"
    /\ Rows("u2") = 0

\* C18: a rejoinRoom call by an identity that has a players row returns
\* true with loading state 'joined', in every phase, and changes no stored
\* row
C18_RejoinRestoresPlayer ==
    [][\A t \in Tabs :
         (/\ rejoinRoomCheckUser(t)
          /\ Rows(calls[t].who) >= 1)
         => /\ result' = [op |-> "rejoinRoom", who |-> calls[t].who,
                          ok |-> TRUE, msg |-> "", loading |-> "joined"]
            /\ UNCHANGED <<room, players, extra, drawings, votes>>]_vars

\* C19: a rejoinRoom call by an identity without a players row creates
\* none and returns false: loading state 'idle' when the room it fetched
\* is in lobby, the error 'Game in progress - you are not a participant'
\* otherwise
C19_RejoinOutsider ==
    [][\A t \in Tabs :
         /\ (\E u \in Joiners : rejoinRoomFetchRoom(t, u))
            => UNCHANGED <<room, players, extra, drawings, votes>>
         /\ (/\ rejoinRoomCheckUser(t)
             /\ Rows(calls[t].who) = 0)
            => /\ UNCHANGED <<room, players, extra, drawings, votes>>
               /\ ~result'.ok
               /\ calls[t].status = "lobby"
                    => result'.loading = "idle" /\ result'.msg = ""
               /\ calls[t].status # "lobby"
                    => /\ result'.loading = "error"
                       /\ result'.msg =
                            "Game in progress - you are not a participant"
      ]_vars

C19_Witness ==
    /\ result = [op |-> "rejoinRoom", who |-> "u2", ok |-> FALSE, msg |-> "",
                 loading |-> "idle"]
    /\ room.status = "lobby"
    /\ Rows("u2") = 0

\* C20: an identity never has more than one players row in the room
C20_OnePlayerPerIdentity ==
    \A u \in Users : Rows(u) <= 1

\* the settings columns of the rooms row
Settings(r) == <<r.total_rounds, r.draw_time, r.vote_time, r.max_players>>

\* C24: the settings of the room change only while the stored phase is
\* lobby, and a step that changes them changes nothing else of the room
C24_SettingsOnlyInLobby ==
    [][Settings(room') # Settings(room)
         => /\ room.status = "lobby"
            /\ Phase(room') = Phase(room)]_vars

\* C25: a room whose phase is not lobby has current_round >= 1
C25_RoundZeroOnlyInLobby ==
    room.status # "lobby" => room.current_round >= 1

C25_Witness ==
    /\ room.status = "results"
    /\ room.current_round = 1
    /\ roomVer >= 3

\* C26: no step lowers the score of a player who is in the room
C26_ScoreNeverDecreases ==
    [][\A u \in Users :
         (players[u].joined /\ players'[u].joined)
         => players'[u].score >= players[u].score]_vars

\* the transition table
Edges ==
    {<<"lobby", "drawing">>, <<"drawing", "voting">>, <<"gallery", "voting">>,
     <<"voting", "results">>, <<"results", "drawing">>,
     <<"results", "finished">>}

\* C29: every change of the stored phase is an edge of the transition table
C29_PhaseChangesAreEdges ==
    [][room'.status # room.status
         => <<room.status, room'.status>> \in Edges]_vars

\* C30: the bulk action takes up the room only if its phase is neither
\* lobby nor finished and its deadline is set and earlier than now; else
\* the invocation does nothing.  Its request alone never changes the room.
C30_BulkTakesOnlyExpired ==
    [][\A w \in Workers :
         CheckPhaseTransitions(w)
         => /\ room' = room
            /\ <<pc, snap, upd>>' # <<pc, snap, upd>>
                 => /\ room.status \notin {"lobby", "finished"}
                    /\ room.phase_end_at # NullTime
                    /\ room.phase_end_at < now]_vars

C30_Witness ==
    \E w \in Workers :
       /\ pc[w] = "fetch"
       /\ snap[w].status = "voting"
       /\ snap[w].phase_end_at # NullTime
       /\ snap[w].phase_end_at < snap[w].at

\* C21: the identities that have a players row in the room are never more
\* than max_players (so neither are the rows)
C21_AtMostMaxPlayers ==
    Cardinality({u \in Users : Rows(u) >= 1}) <= room.max_players

\* C22: the room has exactly one players row with is_host = true
C22_ExactlyOneHost ==
    Cardinality({u \in Users : players[u].joined /\ players[u].is_host}) = 1

\* C23: an updateSettings or startGame call by anybody but the room's host
\* leaves the rooms row unchanged
C23_OnlyHostChangesRoom ==
    [][\A u \in Seats :
         (/\ \/ \E s \in SettingsInputs : updateSettings(u, s)
             \/ startGame(u)
          /\ ~(players[u].joined /\ players[u].is_host))
         => room' = room]_vars

\* C27: no two rooms have the same code
C27_DistinctCodes ==
    \A c \in Codes : roomCodes[c] <= 1

C27_Witness ==
    /\ result.op = "createRoom"
    /\ ~result.ok
    /\ RoomsOf(roomCodes, Codes) >= 2

\* C28: a createRoom call whose generated code is the code of an existing
\* room still creates a room and returns it
C28_CollisionIsRetried ==
    [][\A u \in Guests : \A rnd \in Randoms :
         (/\ createRoom(u, rnd)
          /\ roomCodes[generateRoomCode(rnd)] > 0)
         => /\ result'.ok
            /\ RoomsOf(roomCodes', Codes) = RoomsOf(roomCodes, Codes) + 1
      ]_vars

\* C32: in the voting phase, a castVote on a drawing of the round that is
\* not the voter's own and that the voter has not voted on is accepted, also
\* when the voter already has a vote on another drawing of the round
C32_VotePerDrawing ==
    [][\A u \in Users : \A d \in drawings :
         (/\ castVoteCall(u, d)
          /\ view[u].status = "voting"
          /\ d.round = view[u].current_round
          /\ d.player_id # u
          /\ ~\E v \in votes : v.voter_id = u /\ v.drawing_id = d.id
          /\ \E v \in votes : v.voter_id = u /\ v.round = d.round)
         => /\ result' = Success("castVote", u)
            /\ votes' = votes \cup {[voter_id |-> u, drawing_id |-> d.id,
                                     round |-> d.round]}]_vars

\* C34: a startGame call on a room whose stored phase is not lobby leaves
\* phase, round, prompt and deadline of the room as they are, and no
\* startGame call lowers current_round
C34_StartOnlyFromLobby ==
    [][\A u \in Users :
         startGame(u)
         => /\ room.status # "lobby" => Phase(room') = Phase(room)
            /\ room'.current_round >= room.current_round]_vars

\* C35: a room that has left the lobby has current_round <= total_rounds
C35_RoundWithinTotal ==
    room.status # "lobby" => room.current_round <= room.total_rounds

\* C36: the Timer calls onComplete, and the 'transition_room' request that
\* follows is sent, only at or after the endTime it was given
C36_CompleteNotBeforeDeadline ==
    timer.completed # NullTime
      => /\ timer.completed >= timer.endTime
         /\ timer.request >= timer.endTime

\* C37: when the load timeout of a rejoinRoom call runs while the call is
\* still pending and the loading state is 'loading', the loading state
\* becomes 'error' with the message 'Room loading timed out'
C37_PendingLoadTimesOut ==
    [][\A t \in Tabs :
         (/\ LoadTimeout(t)
          /\ loads[t].state = "loading"
          /\ loads[t].pc = "fetchRoom")
         => /\ loads'[t].state = "error"
            /\ loads'[t].error = "Room loading timed out"]_vars

\* C38: when the host that created a room takes a guest's 'playerJoined', the
\* guest is in the host's player list afterwards, once, and a 'gameState'
\* carrying the host's room is on its way to the guest.
C38_GuestJoinHandled ==
    [][\A g \in Peers \ {Host} :
         (/\ Deliver(Host)
          /\ Head(wire[Host]).event = "playerJoined"
          /\ Head(wire[Host]).player.id = g
          /\ hub[Host].state.room # NullRoom
          /\ hub[Host].state.room.host_id = Host
          /\ hub[Host].state.room.code = hub[g].channel)
         => /\ Cardinality({i \in 1..Len(hub'[Host].state.players) :
                              hub'[Host].state.players[i].id = g}) = 1
            /\ \E i \in 1..Len(wire'[g]) :
                 /\ wire'[g][i].event = "gameState"
                 /\ wire'[g][i].state.room = hub[Host].state.room]_vars

\* the votes on drawings of player id among vs, by the drawings ds
BallotsFor(id, ds, vs) ==
    Cardinality({k \in 1..Len(vs) :
                   \E j \in 1..Len(ds) : /\ ds[j].id = vs[k].drawing_id
                                         /\ ds[j].player_id = id})

\* the castVote calls so far that named a drawing of player id
CastFor(id) == Cardinality({k \in 1..Len(castLog) : castLog[k].owner = id})

\* C39: a step of the host loop on an expired room goes drawing -> gallery
\* (5 s), gallery -> voting (vote_time), voting -> results (10 s), results ->
\* drawing of the next round (draw_time) or finished at the last round; only
\* voting -> results changes scores, by 100 for each vote on a drawing of the
\* player, and no vote is paid twice.
C39_HostLoopTable ==
    [][hostLoop(Host) =>
         LET st == hub[Host].state
             r == st.room
             st2 == hub'[Host].state
             r2 == st2.room
         IN /\ now >= r.phase_end_at
            /\ r2.code = r.code /\ r2.total_rounds = r.total_rounds
            /\ r.status = "drawing" =>
                 /\ r2.status = "gallery" /\ r2.current_round = r.current_round
                 /\ r2.phase_end_at = now + GallerySeconds
            /\ r.status = "gallery" =>
                 /\ r2.status = "voting" /\ r2.current_round = r.current_round
                 /\ r2.phase_end_at = now + r.vote_time
            /\ r.status = "voting" =>
                 /\ r2.status = "results" /\ r2.current_round = r.current_round
                 /\ r2.phase_end_at = now + ResultsSeconds
                 /\ Len(st2.players) = Len(st.players)
                 /\ \A i \in 1..Len(st.players) :
                      /\ st2.players[i].id = st.players[i].id
                      /\ st2.players[i].score = st.players[i].score
                           + VotePoints * BallotsFor(st.players[i].id,
                                                   st.drawings, st.votes)
                      /\ st2.players[i].score
                           <= VotePoints * CastFor(st.players[i].id)
            /\ r.status = "results" /\ r.current_round >= r.total_rounds =>
                 /\ r2.status = "finished" /\ r2.current_round = r.current_round
                 /\ r2.phase_end_at = NullTime
            /\ r.status = "results" /\ r.current_round < r.total_rounds =>
                 /\ r2.status = "drawing"
                 /\ r2.current_round = r.current_round + 1
                 /\ r2.phase_end_at = now + r.draw_time
            /\ r.status # "voting" => st2.players = st.players]_vars

\* the host's game is finished after its last round and two votes were paid
C39_Witness ==
    /\ hub[Host].state.room.status = "finished"
    /\ hub[Host].state.room.current_round = hub[Host].state.room.total_rounds
    /\ \E i \in 1..Len(hub[Host].state.players) :
         hub[Host].state.players[i].score = 2 * VotePoints

\* C33: when voting -> results of round r is committed after an owner of a
\* round-r drawing has left, every player still in the room has received for
\* round r exactly the votes on its own round-r drawing.
C33_RemainingScoredExactly ==
    [][\A w \in Workers :
         (/\ Commit(w)
          /\ snap[w].status = "voting"
          /\ \E o \in Owners : ~players[o].joined)
         => \A u \in Users : players'[u].joined =>
               awarded'[u][snap[w].current_round]
                 = VotesFor(u, snap[w].current_round)]_vars

\* the phase that follows phase s of round r in a game of total rounds
NextPhase(s, r, total) ==
    CASE s = "lobby" -> <<"drawing", 1>>
      [] s = "drawing" -> <<"voting", r>>
      [] s = "gallery" -> <<"voting", r>>
      [] s = "voting" -> <<"results", r>>
      [] s = "results" -> IF r >= total THEN <<"finished", r>>
                          ELSE <<"drawing", r + 1>>
      [] OTHER -> <<s, r>>

\* C31: on its way to finished the room passes through drawing, voting and
\* results of round 1, then of round 2 and so on, each once: whenever the
\* stored phase or round changes, the new one is the next in that order.
C31_PhasesInOrder ==
    [][<<room'.status, room'.current_round>> # <<room.status, room.current_round>>
         => <<room'.status, room'.current_round>>
              = NextPhase(room.status, room.current_round,
                          room.total_rounds)]_vars

====
